---- MODULE Spec2Model ----
(***************************************************************************)
(* Model of pywebio/session/__init__.py: the process-wide registry of      *)
(* active session implementations (_active_session_cls), the resolution of *)
(* the current implementation and session, the capability check            *)
(* (check_session_impl) and the dispatch adapter (chose_impl) with the     *)
(* generator-shaped operations built on it.                                 *)
(*                                                                         *)
(* The session classes themselves (CoroutineBasedSession,                  *)
(* ThreadBasedSession, ScriptModeSession), the exceptions and the two      *)
(* generator drivers of pywebio.utils are imported by the module and are   *)
(* modelled from the specification's description of them.                  *)
(***************************************************************************)
EXTENDS Integers, Sequences, FiniteSets, TLC

\* ---------------------------------------------------------------- bounds
MaxUnits == 3
MaxSessions == 2
MaxReplies == 2
MaxEnvKeys == 2
MaxEvents == 3
MaxDeferred == 3
MaxPending == 1

Units == 1..MaxUnits
Sessions == 1..MaxSessions

\* ------------------------------------------------- kinds, shapes, values
CoroutineBasedSession == "CoroutineBasedSession"
ThreadBasedSession == "ThreadBasedSession"
ScriptModeSession == "ScriptModeSession"
Kinds == {CoroutineBasedSession, ThreadBasedSession, ScriptModeSession}
NoKind == "NoKind"

Shapes == {"plain", "generator", "coroutine"}

SessionNotFoundException == "SessionNotFoundException"
SessionClosedException == "SessionClosedException"
RuntimeError == "RuntimeError"
AssertionError == "AssertionError"
Ok == "ok"

\* thread2session.get(curr) is None / no task in context
NoSession == 0
\* ScriptModeSession.instance, the single ambient session of script mode
Ambient == MaxSessions + 1

\* Values a generator passes around: a plain value (data 0 is None), a client
\* event, an awaitable that was created and not awaited yet (of the session's
\* primitive, or of an adapter-wrapped operation), and the closing of the session
\* as the answer to a suspending call.
Val(d) == [tag |-> "value", event |-> "", data |-> d]
None == Val(0)
Event(e, d) == [tag |-> "event", event |-> e, data |-> d]
PrimAwaitable == [tag |-> "awaitable", event |-> "primitive", data |-> 0]
GenAwaitable(op) == [tag |-> "awaitable", event |-> op, data |-> 0]
Closed == [tag |-> "closed", event |-> "", data |-> 0]

ReplyValues ==
    {Event("js_yield", 0), Event("js_yield", 2), Event("callback", 1), Closed}

AdapterOps == {"next_client_event", "hold", "eval_js"}

VARIABLES
    active,        \* _active_session_cls: sequence of kinds, in registration order
    serverStarts,  \* number of calls of _start_script_mode_server()
    ambient,       \* "none" | "open" | "closed": ScriptModeSession.instance
    sessKind,      \* [Sessions -> Kinds \cup {NoKind}]: kind of each created session
    sessClosed,    \* [Sessions -> BOOLEAN]
    owner,         \* [Units -> Sessions \cup {NoSession}]: unit identity -> owning session
    last,          \* record of the last call made on the module and what it did
    taskOp,        \* the adapter-wrapped operation the units' tasks call
    replies,       \* what the i-th suspending call of a unit is answered with
    consumed,      \* [Units -> Nat]: replies each unit has received so far
    stack,         \* [Units -> Seq(frame)]: generators being driven, innermost last
    status,        \* [Units -> "idle" | "created" | "running" | "blocked" |
                   \*            "suspended" | "done"]
    callMode,      \* [Units -> "none" | "fn" | "coro"]: what the task's call returned
    result,        \* [Units -> [cond, val]]: outcome of the task's call
    trace,         \* [Units -> Seq]: outbound sends and suspending calls performed
    inbox,         \* [Sessions -> Seq(event)]: pending inbound events of a session
    arrived,       \* number of inbound events the transport has delivered
    deferred,      \* [session -> Seq(callable)]: the deferred-cleanup list
    ran,           \* [session -> Seq(callable)]: cleanup callables executed
    logged,        \* [session -> Seq(callable)]: callables whose error was logged
    created,       \* [Units -> SUBSET Units]: arguments of the coroutine objects
                   \* run_asyncio_coroutine returned to a unit, not yet awaited
    scriptIsThreadBased
                   \* BOOLEAN: whether the threadbased module declares
                   \* ScriptModeSession as a subclass of ThreadBasedSession

regVars == <<active, serverStarts, ambient>>
sessVars == <<sessKind, sessClosed, owner>>
driveVars == <<taskOp, replies, consumed, stack, status, callMode, result, trace>>
innerVars == <<inbox, arrived, deferred, ran, logged, created,
               scriptIsThreadBased>>
vars == <<active, serverStarts, ambient, sessKind, sessClosed, owner, last,
          taskOp, replies, consumed, stack, status, callMode, result, trace,
          inbox, arrived, deferred, ran, logged, created, scriptIsThreadBased>>

\* ------------------------------------------------------------- helpers
InSeq(x, s) == \E i \in 1..Len(s) : s[i] = x

NoCall ==
    [op |-> "none", unit |-> 0, shape |-> "none", before |-> <<>>,
     startsBefore |-> 0, kind |-> NoKind, cond |-> Ok, session |-> NoSession,
     calls |-> <<>>, require |-> NoKind, arg |-> 0, executed |-> <<>>,
     message |-> <<>>, env |-> {}, sent |-> <<>>, cause |-> "none"]

\* The exception hierarchy of pywebio.exceptions as the specification gives it:
\* session-closed is a subtype of session-not-found.
IsSessionNotFound(c) == c \in {SessionNotFoundException, SessionClosedException}

\* issubclass(curr_impl, session_type), line 96: the same class, or one derived
\* from it. The three kinds are declared outside this module; the one
\* derivation among them that their declarations may hold is that of the
\* script-mode kind from the thread-backed kind, whose module declares both
\* (line 26).
Issubclass(curr, req) ==
    \/ curr = req
    \/ scriptIsThreadBased /\ curr = ScriptModeSession /\ req = ThreadBasedSession

\* cls.get_current_session() of a kind, for calling unit u, with the ambient
\* session in state amb: the owning session, or the condition raised.
ClsGetCurrentSession(k, u, amb) ==
    IF k = ScriptModeSession
    THEN IF amb = "open" THEN [cond |-> Ok, session |-> Ambient]
         ELSE IF amb = "closed"
              THEN [cond |-> SessionClosedException, session |-> NoSession]
              ELSE [cond |-> SessionNotFoundException, session |-> NoSession]
    ELSE IF owner[u] # NoSession /\ sessKind[owner[u]] = k /\ ~sessClosed[owner[u]]
         THEN [cond |-> Ok, session |-> owner[u]]
         ELSE [cond |-> SessionNotFoundException, session |-> NoSession]

\* ---------------------------------------------------- session internals
\* The sessions that keep a cleanup list: the created ones and the ambient one
AllSessions == Sessions \cup {Ambient}

\* A callable handed to defer_call: the position it was registered at, and
\* whether calling it raises.
Callable(i, b) == [id |-> i, raises |-> b]

InnerIdle ==
    /\ inbox = [s \in Sessions |-> <<>>]
    /\ arrived = 0
    /\ deferred = [s \in AllSessions |-> <<>>]
    /\ ran = [s \in AllSessions |-> <<>>]
    /\ logged = [s \in AllSessions |-> <<>>]
    /\ created = [u \in Units |-> {}]
    /\ scriptIsThreadBased \in BOOLEAN

\* The session's closing: every deferred callable is called once, in the order
\* of registration; an error raised by one is caught and logged and the next
\* one is called.
\* Variant: the first error ends the cleanup.
RECURSIVE RunDeferredAbort(_)
RunDeferredAbort(fs) ==
    IF fs = <<>> THEN [ran |-> <<>>, logged |-> <<>>, cond |-> Ok]
    ELSE IF Head(fs).raises
    THEN [ran |-> <<Head(fs)>>, logged |-> <<>>, cond |-> "Exception"]
    ELSE LET rest == RunDeferredAbort(Tail(fs)) IN
         [ran |-> <<Head(fs)>> \o rest.ran, logged |-> rest.logged,
          cond |-> rest.cond]

RECURSIVE RunDeferred(_)
RunDeferred(fs) ==
    IF fs = <<>> THEN [ran |-> <<>>, logged |-> <<>>, cond |-> Ok]
    ELSE LET rest == RunDeferred(Tail(fs)) IN
         [ran |-> <<Head(fs)>> \o rest.ran,
          logged |-> IF Head(fs).raises THEN <<Head(fs)>> \o rest.logged
                     ELSE rest.logged,
          cond |-> rest.cond]

\* ------------------------------------------------------------ registry
\* register_session_implement_for_target, lines 39-42: the kind for a shape
RegisterCls(shape) ==
    IF shape = "coroutine" \/ shape = "generator"
    THEN CoroutineBasedSession
    ELSE ThreadBasedSession

\* lines 44-45
\* Variant: registration that never refuses.
RegisterRaisesNever(a) == FALSE

RegisterRaises(a) == InSeq(ScriptModeSession, a)

\* lines 47-48
\* Variant: a kind registered again moves to the end of the registry.
RegisterMoveToEnd(a, cls) == Append(SelectSeq(a, LAMBDA k : k # cls), cls)

\* Variant: registration without the membership test of line 47.
RegisterAppendAlways(a, cls) == Append(a, cls)

RegisterAppend(a, cls) == IF ~InSeq(cls, a) THEN Append(a, cls) ELSE a

\* get_session_implement, lines 55-57
\* Variant: the bootstrap also runs when only script mode is registered.
BootstrapWhenScriptOnly(a) == a = <<>> \/ a = <<ScriptModeSession>>

NeedsBootstrap(a) == a = <<>>

BootstrapRegistry(a) ==
    IF NeedsBootstrap(a) THEN Append(a, ScriptModeSession) ELSE a

\* lines 64-71: probe the kinds from position i on, in registration order
\* Variant: the loop of lines 64-69 without the raise of line 71.
RECURSIVE ProbeFromNoRaise(_, _, _, _)
ProbeFromNoRaise(a, i, u, amb) ==
    IF i > Len(a)
    THEN [impl |-> NoKind, cond |-> "AttributeError", calls |-> <<>>]
    ELSE LET r == ClsGetCurrentSession(a[i], u, amb) IN
         IF r.cond = Ok
         THEN [impl |-> a[i], cond |-> Ok, calls |-> <<a[i]>>]
         ELSE LET rest == ProbeFromNoRaise(a, i + 1, u, amb) IN
              [impl |-> rest.impl, cond |-> rest.cond,
               calls |-> <<a[i]>> \o rest.calls]

\* Variant: the loop without the except clause of lines 67-68.
ProbeFromNoExcept(a, i, u, amb) ==
    IF i > Len(a)
    THEN [impl |-> NoKind, cond |-> SessionNotFoundException, calls |-> <<>>]
    ELSE LET r == ClsGetCurrentSession(a[i], u, amb) IN
         [impl |-> IF r.cond = Ok THEN a[i] ELSE NoKind, cond |-> r.cond,
          calls |-> <<a[i]>>]

\* The except clause of line 67 names SessionNotFoundException; the condition
\* a closed script-mode session raises is SessionClosedException, which the
\* clause lets through.
RECURSIVE ProbeFrom(_, _, _, _)
ProbeFrom(a, i, u, amb) ==
    IF i > Len(a)
    THEN [impl |-> NoKind, cond |-> SessionNotFoundException, calls |-> <<>>]
    ELSE LET r == ClsGetCurrentSession(a[i], u, amb) IN
         IF r.cond = Ok
         THEN [impl |-> a[i], cond |-> Ok, calls |-> <<a[i]>>]
         ELSE IF r.cond = SessionNotFoundException
              THEN LET rest == ProbeFrom(a, i + 1, u, amb) IN
                   [impl |-> rest.impl, cond |-> rest.cond,
                    calls |-> <<a[i]>> \o rest.calls]
              ELSE [impl |-> NoKind, cond |-> r.cond, calls |-> <<a[i]>>]

\* lines 59-71 on the registry a as it is after lines 55-57
\* Variant: the first registered kind, whatever the registry's length.
SelectImplFirstKind(a, u, amb) ==
    [impl |-> a[1], cond |-> Ok, calls |-> <<>>]

\* Variant: the probe of lines 64-71 even for a single kind.
SelectImplAlwaysProbe(a, u, amb) == ProbeFrom(a, 1, u, amb)

SelectImpl(a, u, amb) ==
    IF Len(a) = 1
    THEN [impl |-> a[1], cond |-> Ok, calls |-> <<>>]
    ELSE ProbeFrom(a, 1, u, amb)

\* The ambient session after lines 55-57: start_server_in_current_thread_session
\* creates the script-mode session instance.
BootstrapAmbient(a, amb) == IF NeedsBootstrap(a) THEN "open" ELSE amb

\* line 57: one more call of _start_script_mode_server()
BootstrapStarts(a, n) == IF NeedsBootstrap(a) THEN n + 1 ELSE n

\* get_session_implement() called by unit u with registry a, n server starts so
\* far and the ambient session in state amb: the state it leaves and its outcome
GetSessionImplement(a, n, amb, u) ==
    LET a1 == BootstrapRegistry(a)
        amb1 == BootstrapAmbient(a, amb)
        sel == SelectImpl(a1, u, amb1)
    IN  [registry |-> a1, starts |-> BootstrapStarts(a, n), ambient |-> amb1,
         impl |-> sel.impl, cond |-> sel.cond, calls |-> sel.calls]

\* get_current_session(), line 80
GetCurrentSession(a, n, amb, u) ==
    LET g == GetSessionImplement(a, n, amb, u) IN
    IF g.cond # Ok
    THEN [registry |-> g.registry, starts |-> g.starts, ambient |-> g.ambient,
          impl |-> NoKind, cond |-> g.cond, session |-> NoSession,
          calls |-> g.calls]
    ELSE LET r == ClsGetCurrentSession(g.impl, u, g.ambient) IN
         [registry |-> g.registry, starts |-> g.starts, ambient |-> g.ambient,
          impl |-> g.impl, cond |-> r.cond, session |-> r.session,
          calls |-> Append(g.calls, g.impl)]

\* check_session_impl, line 96: the call goes through to the wrapped function
\* Variant: a wrapper without the test of line 96.
CheckPassesAlways(curr, req) == TRUE

CheckPasses(curr, req) == Issubclass(curr, req)

\* lines 97-103: the error message, by the three names formatted into it
MismatchMessage(func, req, curr) == <<func, req, curr>>

\* The kind each decorated operation requires, lines 237, 251, 273
Required(func) ==
    IF func = "register_thread" THEN ThreadBasedSession ELSE CoroutineBasedSession

KindOps == {"run_async", "run_asyncio_coroutine", "register_thread"}

\* ------------------------------------------------------------- actions
\* A unit identity not yet known to any session: the next thread or task the
\* runtime creates. Identities are interchangeable, so the lowest one not in
\* use (and other than the caller c) stands for all of them.
FreeUnit(v, c) ==
    /\ owner[v] = NoSession
    /\ \A w \in 1..(v - 1) : owner[w] # NoSession \/ w = c

\* No task has called an adapter-wrapped operation yet
DriveIdle ==
    /\ consumed = [u \in Units |-> 0]
    /\ stack = [u \in Units |-> <<>>]
    /\ status = [u \in Units |-> "idle"]
    /\ callMode = [u \in Units |-> "none"]
    /\ result = [u \in Units |-> [cond |-> Ok, val |-> None]]
    /\ trace = [u \in Units |-> <<>>]

Init ==
    /\ taskOp = "none"
    /\ replies = <<>>
    /\ active = <<>>
    /\ serverStarts = 0
    /\ ambient = "none"
    /\ sessKind = [s \in Sessions |-> NoKind]
    /\ sessClosed = [s \in Sessions |-> FALSE]
    /\ owner = [u \in Units |-> NoSession]
    /\ last = NoCall
    /\ DriveIdle
    /\ InnerIdle

\* register_session_implement_for_target(target_func)
Register(shape) ==
    LET cls == RegisterCls(shape) IN
    /\ IF RegisterRaises(active)
       THEN /\ active' = active
            /\ last' = [NoCall EXCEPT !.op = "register", !.shape = shape,
                            !.before = active, !.startsBefore = serverStarts,
                            !.cond = RuntimeError]
       ELSE /\ active' = RegisterAppend(active, cls)
            /\ last' = [NoCall EXCEPT !.op = "register", !.shape = shape,
                            !.before = active, !.startsBefore = serverStarts,
                            !.kind = cls]
    /\ UNCHANGED <<serverStarts, ambient, sessKind, sessClosed, owner>>
    /\ UNCHANGED driveVars
    /\ UNCHANGED innerVars

\* get_session_implement() called from unit u
ResolveKind(u) ==
    \E g \in {GetSessionImplement(active, serverStarts, ambient, u)} :
    /\ active' = g.registry
    /\ serverStarts' = g.starts
    /\ ambient' = g.ambient
    /\ last' = [NoCall EXCEPT !.op = "get_session_implement", !.unit = u,
                    !.before = active, !.startsBefore = serverStarts,
                    !.kind = g.impl, !.cond = g.cond, !.calls = g.calls]
    /\ UNCHANGED <<sessKind, sessClosed, owner>>
    /\ UNCHANGED driveVars
    /\ UNCHANGED innerVars

\* get_current_session() called from unit u
ResolveSession(u) ==
    \E r \in {GetCurrentSession(active, serverStarts, ambient, u)} :
    /\ active' = r.registry
    /\ serverStarts' = r.starts
    /\ ambient' = r.ambient
    /\ last' = [NoCall EXCEPT !.op = "get_current_session", !.unit = u,
                    !.before = active, !.startsBefore = serverStarts,
                    !.kind = r.impl, !.cond = r.cond, !.session = r.session,
                    !.calls = r.calls]
    /\ UNCHANGED <<sessKind, sessClosed, owner>>
    /\ UNCHANGED driveVars
    /\ UNCHANGED innerVars

\* The decorated operations whose wrapped function is an async def (line 252):
\* calling it creates a coroutine object and runs none of its body.
AsyncOps == {"run_asyncio_coroutine"}

\* A decorated operation func(arg) called from unit u: check_session_impl's
\* inner (lines 92-104). When the check passes, line 104 calls the wrapped
\* function: run_async (line 248) and register_thread (line 283) run their body,
\* which admits the unit arg into the caller's session; run_asyncio_coroutine
\* returns a coroutine object for arg, whose body (line 270) runs when the
\* object is awaited. A coroutine object is wrapped once, and a unit holds at
\* most MaxPending objects it has not awaited yet.
KindOp(func, u, arg) ==
    /\ func \in KindOps
    /\ arg # u
    /\ FreeUnit(arg, u)
    /\ \E g \in {GetSessionImplement(active, serverStarts, ambient, u)} :
       \E base \in {[NoCall EXCEPT !.op = func, !.unit = u, !.before = active,
                         !.startsBefore = serverStarts,
                         !.require = Required(func), !.arg = arg]} :
       IF g.cond # Ok
       THEN /\ active' = g.registry
            /\ serverStarts' = g.starts
            /\ ambient' = g.ambient
            /\ owner' = owner
            /\ created' = created
            /\ last' = [base EXCEPT !.cond = g.cond, !.calls = g.calls]
       ELSE IF ~CheckPasses(g.impl, Required(func))
       THEN /\ active' = g.registry
            /\ serverStarts' = g.starts
            /\ ambient' = g.ambient
            /\ owner' = owner
            /\ created' = created
            /\ last' = [base EXCEPT !.kind = g.impl, !.cond = RuntimeError,
                            !.calls = g.calls,
                            !.message = MismatchMessage(func, Required(func), g.impl)]
       ELSE IF func \in AsyncOps
       THEN /\ arg \notin created[u]
            /\ Cardinality(created[u]) < MaxPending
            /\ active' = g.registry
            /\ serverStarts' = g.starts
            /\ ambient' = g.ambient
            /\ owner' = owner
            /\ created' = [created EXCEPT ![u] = @ \cup {arg}]
            /\ last' = [base EXCEPT !.kind = g.impl, !.calls = g.calls]
       ELSE \E r \in {GetCurrentSession(g.registry, g.starts, g.ambient, u)} :
            /\ active' = r.registry
            /\ serverStarts' = r.starts
            /\ ambient' = r.ambient
            /\ owner' = IF r.cond = Ok /\ r.session \in Sessions
                        THEN [owner EXCEPT ![arg] = r.session]
                        ELSE owner
            /\ created' = created
            /\ last' = [base EXCEPT !.kind = g.impl, !.cond = r.cond,
                            !.session = r.session,
                            !.calls = g.calls \o r.calls,
                            !.executed = <<[func |-> func, arg |-> arg]>>]
    /\ UNCHANGED <<sessKind, sessClosed>>
    /\ UNCHANGED driveVars
    /\ UNCHANGED <<inbox, arrived, deferred, ran, logged, scriptIsThreadBased>>

\* Unit u awaits the coroutine object run_asyncio_coroutine(arg) returned to
\* it: the body runs, line 270, get_current_session().run_asyncio_coroutine(arg)
AwaitCoroutine(u, arg) ==
    /\ arg \in created[u]
    /\ created' = [created EXCEPT ![u] = @ \ {arg}]
    /\ \E r \in {GetCurrentSession(active, serverStarts, ambient, u)} :
         /\ active' = r.registry
         /\ serverStarts' = r.starts
         /\ ambient' = r.ambient
         /\ last' = [NoCall EXCEPT !.op = "await run_asyncio_coroutine",
                         !.unit = u, !.before = active,
                         !.startsBefore = serverStarts, !.kind = r.impl,
                         !.cond = r.cond, !.session = r.session,
                         !.calls = r.calls, !.arg = arg,
                         !.executed = <<[func |-> "run_asyncio_coroutine",
                                         arg |-> arg]>>]
    /\ UNCHANGED <<sessKind, sessClosed, owner>>
    /\ UNCHANGED driveVars
    /\ UNCHANGED <<inbox, arrived, deferred, ran, logged, scriptIsThreadBased>>

\* get_current_task_id() called from unit u, lines 83-84: the resolved kind's
\* get_current_task_id(), which names the calling unit.
GetCurrentTaskId(u) ==
    \E g \in {GetSessionImplement(active, serverStarts, ambient, u)} :
    /\ active' = g.registry
    /\ serverStarts' = g.starts
    /\ ambient' = g.ambient
    /\ last' = [NoCall EXCEPT !.op = "get_current_task_id", !.unit = u,
                    !.before = active, !.startsBefore = serverStarts,
                    !.kind = g.impl, !.cond = g.cond,
                    !.calls = IF g.cond = Ok THEN Append(g.calls, g.impl)
                              ELSE g.calls,
                    !.arg = IF g.cond = Ok THEN u ELSE 0]
    /\ UNCHANGED <<sessKind, sessClosed, owner>>
    /\ UNCHANGED driveVars
    /\ UNCHANGED innerVars

\* The functions that read an attribute of the current session: data() (line
\* 354, .save) and get_info() (line 442, .info)
SessionReaders == {"data", "get_info"}

\* data() or get_info() called from unit u
ReadSession(func, u) ==
    /\ func \in SessionReaders
    /\ \E r \in {GetCurrentSession(active, serverStarts, ambient, u)} :
         /\ active' = r.registry
         /\ serverStarts' = r.starts
         /\ ambient' = r.ambient
         /\ last' = [NoCall EXCEPT !.op = func, !.unit = u,
                         !.before = active, !.startsBefore = serverStarts,
                         !.kind = r.impl, !.cond = r.cond,
                         !.session = r.session, !.calls = r.calls]
    /\ UNCHANGED <<sessKind, sessClosed, owner>>
    /\ UNCHANGED driveVars
    /\ UNCHANGED innerVars

StartableUnit(u) == FreeUnit(u, u)

FreeSession(s) == sessKind[s] = NoKind /\ \A t \in 1..(s - 1) : sessKind[t] # NoKind

StartSession(s, k, u) ==
    /\ FreeSession(s)
    /\ k \in {CoroutineBasedSession, ThreadBasedSession}
    /\ InSeq(k, active)
    /\ StartableUnit(u)
    /\ sessKind' = [sessKind EXCEPT ![s] = k]
    /\ owner' = [owner EXCEPT ![u] = s]
    /\ last' = [NoCall EXCEPT !.op = "start_session", !.unit = u, !.kind = k,
                    !.session = s]
    /\ UNCHANGED <<active, serverStarts, ambient, sessClosed>>
    /\ UNCHANGED driveVars
    /\ UNCHANGED innerVars

\* What closes a session: the client disconnects, or the task finishes
CloseCauses == {"client", "task"}

\* The cleanup of session s as it closes
Cleanup(s) ==
    LET c == RunDeferred(deferred[s]) IN
    [ran |-> [ran EXCEPT ![s] = c.ran],
     logged |-> [logged EXCEPT ![s] = c.logged],
     cond |-> c.cond]

\* The session closes (client gone or task finished): its units are forgotten
\* and its cleanup list is run.
CloseSession(s) ==
    /\ sessKind[s] # NoKind
    /\ ~sessClosed[s]
    /\ sessClosed' = [sessClosed EXCEPT ![s] = TRUE]
    /\ owner' = [u \in Units |-> IF owner[u] = s THEN NoSession ELSE owner[u]]
    /\ \E cause \in CloseCauses, c \in {Cleanup(s)} :
         /\ ran' = c.ran
         /\ logged' = c.logged
         /\ last' = [NoCall EXCEPT !.op = "close_session", !.session = s,
                         !.cause = cause, !.cond = c.cond]
    /\ UNCHANGED <<active, serverStarts, ambient, sessKind>>
    /\ UNCHANGED driveVars
    /\ UNCHANGED <<inbox, arrived, deferred, created, scriptIsThreadBased>>

\* The ambient script-mode session closes.
CloseAmbient ==
    /\ ambient = "open"
    /\ ambient' = "closed"
    /\ \E cause \in CloseCauses, c \in {Cleanup(Ambient)} :
         /\ ran' = c.ran
         /\ logged' = c.logged
         /\ last' = [NoCall EXCEPT !.op = "close_session", !.session = Ambient,
                         !.cause = cause, !.cond = c.cond]
    /\ UNCHANGED <<active, serverStarts, sessKind, sessClosed, owner>>
    /\ UNCHANGED driveVars
    /\ UNCHANGED <<inbox, arrived, deferred, created, scriptIsThreadBased>>

Next ==
    \/ \E shape \in Shapes : Register(shape)
    \/ \E u \in Units : ResolveKind(u)
    \/ \E u \in Units : ResolveSession(u)
    \/ \E u \in Units : GetCurrentTaskId(u)
    \/ \E func \in SessionReaders, u \in Units : ReadSession(func, u)
    \/ \E func \in KindOps, u \in Units, arg \in Units : KindOp(func, u, arg)
    \/ \E u \in Units, arg \in Units : AwaitCoroutine(u, arg)
    \/ \E s \in Sessions, k \in Kinds, u \in Units : StartSession(s, k, u)
    \/ \E s \in Sessions : CloseSession(s)
    \/ CloseAmbient

Spec == Init /\ [][Next]_vars

\* ------------------------------------------------------ dispatch adapter
\* chose_impl, line 119: the driver for the generator, by the resolved kind
\* Variant: the function-style driver for every kind.
ChoseImplAlwaysFunction(impl) == "fn"

ChoseImpl(impl) == IF impl = CoroutineBasedSession THEN "coro" ELSE "fn"

\* SessionException is the base of session-not-found and session-closed
IsSessionException(c) == c \in {SessionNotFoundException, SessionClosedException}

\* hold, lines 144-147: the one generator with a handler around its call
\* Variant: every generator swallows a session exception.
CatchesEverywhere(op, c) == IsSessionException(c)

Catches(op, c) == op = "hold" /\ IsSessionException(c)

\* Where a generator continues when the value of its yield is sent back:
\* next_client_event returns it (line 130), hold loops (line 143), eval_js
\* checks it (line 232).
\* Variant: next_client_event calls the primitive again instead of returning.
AfterYieldPrimitiveAgain(op) ==
    IF op = "next_client_event" THEN "start"
    ELSE IF op = "hold" THEN "loop" ELSE "check"

\* Variant: hold without the loop of line 143.
AfterYieldHoldReturns(op) ==
    IF op = "eval_js" THEN "check" ELSE "return"

AfterYield(op) ==
    IF op = "next_client_event" THEN "return"
    ELSE IF op = "hold" THEN "loop" ELSE "check"

\* The first statement of each generator body
FirstPc(op) == IF op = "hold" THEN "loop" ELSE "start"

NewFrame(op, mode) ==
    [op |-> op, mode |-> mode, pc |-> FirstPc(op), val |-> None, cond |-> Ok]

Top(stk) == stk[Len(stk)]
Pop(stk) == SubSeq(stk, 1, Len(stk) - 1)
SetTop(stk, f) == [stk EXCEPT ![Len(stk)] = f]

\* An exception raised at the current statement of frame f's generator
RaiseIn(f, c) ==
    IF Catches(f.op, c)
    THEN [f EXCEPT !.pc = "return", !.val = None, !.cond = Ok]
    ELSE [f EXCEPT !.pc = "raise", !.val = None, !.cond = c]

\* to_coroutine when the awaitable it awaits fails: the failure is delivered
\* to the generator at its yield.
DriverFailure(f, c) == RaiseIn(f, c)

\* The kind of a session object
KindOfSession(s) == IF s = Ambient THEN ScriptModeSession ELSE sessKind[s]

\* session.next_client_event() is an awaitable under the coroutine-backed
\* kind and a blocking call under the thread-backed kind
PrimitiveIsAwaitable(k) == k = CoroutineBasedSession

\* What one step of unit u's innermost generator, or of its driver, does
Effect(stk, st, res, tr, reg) ==
    [stack |-> stk, status |-> st, result |-> res, trace |-> tr,
     registry |-> reg.registry, starts |-> reg.starts, ambient |-> reg.ambient]

SameRegistry ==
    [registry |-> active, starts |-> serverStarts, ambient |-> ambient]

\* The frame's generator or driver finished: hand the outcome to whoever waits
\* for it, the enclosing generator or the task.
Finish(u, stk) ==
    LET f == Top(stk)
        rest == Pop(stk)
    IN  IF rest = <<>>
        THEN Effect(<<>>, "done", [cond |-> f.cond, val |-> f.val], trace[u],
                    SameRegistry)
        ELSE LET p == Top(rest) IN
             IF f.pc = "return"
             THEN Effect(SetTop(rest,
                             [p EXCEPT !.val = f.val,
                                       !.pc = IF p.pc = "calling" THEN "yield"
                                              ELSE AfterYield(p.op)]),
                         "running", result[u], trace[u], SameRegistry)
             ELSE Effect(SetTop(rest,
                             IF p.pc = "calling" THEN RaiseIn(p, f.cond)
                             ELSE DriverFailure(p, f.cond)),
                         "running", result[u], trace[u], SameRegistry)

\* A call of the adapter-wrapped next_client_event() made by frame f's
\* generator (lines 145 and 231): chose_impl's inner, lines 118-122
CallPrimitiveAdapter(u, stk) ==
    LET f == Top(stk)
        g == GetSessionImplement(active, serverStarts, ambient, u)
    IN  IF g.cond # Ok
        THEN Effect(SetTop(stk, RaiseIn(f, g.cond)), "running", result[u],
                    trace[u], g)
        ELSE IF ChoseImpl(g.impl) = "coro"
        THEN Effect(SetTop(stk, [f EXCEPT !.pc = "yield",
                                          !.val = GenAwaitable("next_client_event")]),
                    "running", result[u], trace[u], g)
        ELSE Effect(Append(SetTop(stk, [f EXCEPT !.pc = "calling"]),
                           NewFrame("next_client_event", "fn")),
                    "running", result[u], trace[u], g)

\* The driver receives the value the generator yields: run_as_function sends it
\* straight back, to_coroutine awaits it first.
DriveYield(u, stk) ==
    LET f == Top(stk) IN
    IF f.mode = "fn"
    THEN Effect(SetTop(stk, [f EXCEPT !.pc = AfterYield(f.op)]), "running",
                result[u], trace[u], SameRegistry)
    ELSE IF f.val.tag # "awaitable"
    THEN Effect(SetTop(stk, [f EXCEPT !.pc = "raise", !.val = None,
                                      !.cond = "TypeError"]),
                "running", result[u], trace[u], SameRegistry)
    ELSE IF f.val = PrimAwaitable
    THEN Effect(SetTop(stk, [f EXCEPT !.pc = "awaiting"]), "suspended",
                result[u], Append(trace[u], "wait"), SameRegistry)
    ELSE Effect(Append(SetTop(stk, [f EXCEPT !.pc = "awaiting"]),
                       NewFrame(f.val.event, "coro")),
                "running", result[u], trace[u], SameRegistry)

\* next_client_event, line 129: get_current_session().next_client_event()
PrimitiveStart(u, stk) ==
    LET f == Top(stk)
        r == GetCurrentSession(active, serverStarts, ambient, u)
    IN  IF r.cond # Ok
        THEN Effect(SetTop(stk, RaiseIn(f, r.cond)), "running", result[u],
                    trace[u], r)
        ELSE IF PrimitiveIsAwaitable(KindOfSession(r.session))
        THEN Effect(SetTop(stk, [f EXCEPT !.pc = "yield", !.val = PrimAwaitable]),
                    "running", result[u], trace[u], r)
        ELSE Effect(SetTop(stk, [f EXCEPT !.pc = "blocking"]), "blocked",
                    result[u], Append(trace[u], "wait"), r)

\* eval_js, line 229: run_js(script) sends one run_script message to the
\* current session
\* Variant: eval_js without the send of line 229.
EvalJsSkipSend(u, stk) ==
    LET f == Top(stk) IN
    Effect(SetTop(stk, [f EXCEPT !.pc = "call"]), "running", result[u],
           trace[u], SameRegistry)

EvalJsSend(u, stk) ==
    LET f == Top(stk)
        r == GetCurrentSession(active, serverStarts, ambient, u)
    IN  IF r.cond # Ok
        THEN Effect(SetTop(stk, RaiseIn(f, r.cond)), "running", result[u],
                    trace[u], r)
        ELSE Effect(SetTop(stk, [f EXCEPT !.pc = "call"]), "running", result[u],
                    Append(trace[u], "send run_script"), r)

\* eval_js, lines 232-234
\* Variant: eval_js without the assertion of line 232.
EvalJsCheckNoAssert(u, stk) ==
    LET f == Top(stk) IN
    IF f.val.tag # "event"
    THEN Effect(SetTop(stk, RaiseIn(f, "TypeError")), "running", result[u],
                trace[u], SameRegistry)
    ELSE Effect(SetTop(stk, [f EXCEPT !.pc = "return", !.val = Val(f.val.data)]),
                "running", result[u], trace[u], SameRegistry)

EvalJsCheck(u, stk) ==
    LET f == Top(stk) IN
    IF f.val.tag # "event"
    THEN Effect(SetTop(stk, RaiseIn(f, "TypeError")), "running", result[u],
                trace[u], SameRegistry)
    ELSE IF f.val.event # "js_yield"
    THEN Effect(SetTop(stk, RaiseIn(f, AssertionError)), "running",
                result[u], trace[u], SameRegistry)
    ELSE Effect(SetTop(stk, [f EXCEPT !.pc = "return", !.val = Val(f.val.data)]),
                "running", result[u], trace[u], SameRegistry)

StepEffect(u) ==
    LET stk == stack[u]
        f == Top(stk)
    IN  IF f.pc \in {"return", "raise"} THEN Finish(u, stk)
        ELSE IF f.pc = "yield" THEN DriveYield(u, stk)
        ELSE IF f.pc \in {"loop", "call"} THEN CallPrimitiveAdapter(u, stk)
        ELSE IF f.pc = "check" THEN EvalJsCheck(u, stk)
        ELSE IF f.op = "eval_js" THEN EvalJsSend(u, stk)
        ELSE PrimitiveStart(u, stk)

\* The task of unit u calls the adapter-wrapped operation: chose_impl's inner
CallAdapter(u) ==
    /\ status[u] = "idle"
    /\ taskOp \in AdapterOps
    /\ \E g \in {GetSessionImplement(active, serverStarts, ambient, u)} :
         /\ active' = g.registry
         /\ serverStarts' = g.starts
         /\ ambient' = g.ambient
         /\ IF g.cond # Ok
            THEN /\ status' = [status EXCEPT ![u] = "done"]
                 /\ result' = [result EXCEPT ![u] = [cond |-> g.cond, val |-> None]]
                 /\ UNCHANGED <<stack, callMode>>
            ELSE /\ callMode' = [callMode EXCEPT ![u] = ChoseImpl(g.impl)]
                 /\ result' = result
                 /\ IF ChoseImpl(g.impl) = "coro"
                    THEN /\ status' = [status EXCEPT ![u] = "created"]
                         /\ stack' = stack
                    ELSE /\ status' = [status EXCEPT ![u] = "running"]
                         /\ stack' = [stack EXCEPT
                                          ![u] = <<NewFrame(taskOp, "fn")>>]
    /\ UNCHANGED <<sessVars, last, taskOp, replies, consumed, trace>>
    /\ UNCHANGED innerVars

\* The task awaits the awaitable the call returned: to_coroutine starts
Await(u) ==
    /\ status[u] = "created"
    /\ status' = [status EXCEPT ![u] = "running"]
    /\ stack' = [stack EXCEPT ![u] = <<NewFrame(taskOp, "coro")>>]
    /\ UNCHANGED <<regVars, sessVars, last, taskOp, replies, consumed, callMode,
                   result, trace>>
    /\ UNCHANGED innerVars

\* One step of the innermost generator of unit u, or of its driver
Step(u) ==
    /\ status[u] = "running"
    /\ \E e \in {StepEffect(u)} :
         /\ stack' = [stack EXCEPT ![u] = e.stack]
         /\ status' = [status EXCEPT ![u] = e.status]
         /\ result' = [result EXCEPT ![u] = e.result]
         /\ trace' = [trace EXCEPT ![u] = e.trace]
         /\ active' = e.registry
         /\ serverStarts' = e.starts
         /\ ambient' = e.ambient
    /\ UNCHANGED <<sessVars, last, taskOp, replies, consumed, callMode>>
    /\ UNCHANGED innerVars

\* The suspending call of unit u is answered: with the next client event, or
\* with the session-closed condition because its session closes meanwhile.
Reply(u) ==
    /\ status[u] \in {"blocked", "suspended"}
    /\ consumed[u] < Len(replies)
    /\ consumed' = [consumed EXCEPT ![u] = @ + 1]
    /\ status' = [status EXCEPT ![u] = "running"]
    /\ \E rep \in {replies[consumed[u] + 1]}, f \in {Top(stack[u])} :
         IF rep = Closed
         THEN /\ \E c \in {IF owner[u] \in Sessions THEN Cleanup(owner[u])
                          ELSE [ran |-> ran, logged |-> logged, cond |-> Ok]} :
                   ran' = c.ran /\ logged' = c.logged
              /\ sessClosed' = [s \in Sessions |->
                                    sessClosed[s] \/ s = owner[u]]
              /\ owner' = [v \in Units |->
                               IF owner[v] = owner[u] THEN NoSession ELSE owner[v]]
              /\ stack' = [stack EXCEPT ![u] = SetTop(@,
                               IF status[u] = "blocked"
                               THEN RaiseIn(f, SessionClosedException)
                               ELSE DriverFailure(f, SessionClosedException))]
         ELSE /\ UNCHANGED <<sessClosed, owner, ran, logged>>
              /\ stack' = [stack EXCEPT ![u] = SetTop(@,
                               [f EXCEPT !.val = rep,
                                         !.pc = IF status[u] = "blocked"
                                                THEN "yield"
                                                ELSE AfterYield(f.op)])]
    /\ UNCHANGED <<regVars, sessKind, last, taskOp, replies, callMode, result,
                   trace, inbox, arrived, deferred, created, scriptIsThreadBased>>

\* Both kinds registered, in either order, with one open thread-backed session
\* (unit and session 1) and one open coroutine-backed session (unit and session
\* 2); the other units belong to no session. Every task calls the same
\* operation and every unit's suspending calls get the same answers.
ThreadUnit == 1
CoroutineUnit == 2
Home(u) == IF u \in {ThreadUnit, CoroutineUnit} THEN u ELSE NoSession

RECURSIVE SeqsUpTo(_, _)
SeqsUpTo(S, n) ==
    IF n = 0 THEN {<<>>}
    ELSE LET shorter == SeqsUpTo(S, n - 1) IN
         shorter \cup {Append(q, x) : q \in shorter, x \in S}

InitDrive ==
    /\ active \in {<<ThreadBasedSession, CoroutineBasedSession>>,
                   <<CoroutineBasedSession, ThreadBasedSession>>}
    /\ serverStarts = 0
    /\ ambient = "none"
    /\ sessKind = [s \in Sessions |->
                       IF s = Home(ThreadUnit) THEN ThreadBasedSession
                       ELSE IF s = Home(CoroutineUnit) THEN CoroutineBasedSession
                       ELSE NoKind]
    /\ sessClosed = [s \in Sessions |-> FALSE]
    /\ owner = [u \in Units |-> Home(u)]
    /\ last = NoCall
    /\ taskOp \in AdapterOps
    /\ replies \in SeqsUpTo(ReplyValues, MaxReplies)
    /\ DriveIdle
    /\ InnerIdle

NextDrive ==
    \/ \E u \in Units : CallAdapter(u)
    \/ \E u \in Units : Await(u)
    \/ \E u \in Units : Step(u)
    \/ \E u \in Units : Reply(u)

SpecDrive == InitDrive /\ [][NextDrive]_vars

\* ------------------------------------------------- the session's queue
\* One open session that every unit belongs to (main task and auxiliary
\* units), of either kind, with that kind registered alone or with the other.
\* Every unit's task calls next_client_event.
SharedSession == 1

InitSession ==
    /\ active \in {<<ThreadBasedSession>>, <<CoroutineBasedSession>>,
                   <<ThreadBasedSession, CoroutineBasedSession>>,
                   <<CoroutineBasedSession, ThreadBasedSession>>}
    /\ serverStarts = 0
    /\ ambient = "none"
    /\ \E k \in {ThreadBasedSession, CoroutineBasedSession} :
           /\ InSeq(k, active)
           /\ sessKind = [s \in Sessions |->
                              IF s = SharedSession THEN k ELSE NoKind]
    /\ sessClosed = [s \in Sessions |-> FALSE]
    /\ owner = [u \in Units |-> SharedSession]
    /\ last = NoCall
    /\ taskOp = "next_client_event"
    /\ replies = <<>>
    /\ DriveIdle
    /\ InnerIdle

\* The transport delivers one more inbound event to session s: it joins the
\* session's pending queue. Events are numbered in arrival order.
Deliver(s) ==
    /\ sessKind[s] # NoKind
    /\ ~sessClosed[s]
    /\ arrived < MaxEvents
    /\ arrived' = arrived + 1
    /\ inbox' = [inbox EXCEPT ![s] = Append(@, Event("callback", arrived + 1))]
    /\ UNCHANGED <<regVars, sessVars, last, driveVars, deferred, ran, logged,
                   created, scriptIsThreadBased>>

\* What the queue holds once a consumer has taken its first event
TakeHead(q) == Tail(q)

\* Session.next_client_event() of a suspended unit returns: the unit takes the
\* first pending event of its session.
Receive(u) ==
    /\ status[u] \in {"blocked", "suspended"}
    /\ owner[u] \in Sessions
    /\ inbox[owner[u]] # <<>>
    /\ inbox' = [inbox EXCEPT ![owner[u]] = TakeHead(@)]
    /\ consumed' = [consumed EXCEPT ![u] = @ + 1]
    /\ status' = [status EXCEPT ![u] = "running"]
    /\ \E ev \in {Head(inbox[owner[u]])}, f \in {Top(stack[u])} :
           stack' = [stack EXCEPT ![u] = SetTop(@,
                         [f EXCEPT !.val = ev,
                                   !.pc = IF status[u] = "blocked" THEN "yield"
                                          ELSE AfterYield(f.op)])]
    /\ UNCHANGED <<regVars, sessVars, last, taskOp, replies, callMode, result,
                   trace, arrived, deferred, ran, logged, created, scriptIsThreadBased>>

\* A unit is suspended in the primitive of a session that has closed: the
\* closing removed the unit from the session's lookup table.
WaitsInClosedSession(u) ==
    /\ status[u] \in {"blocked", "suspended"}
    /\ owner[u] = NoSession
    /\ ~InSeq(ScriptModeSession, active)

\* The unit is released with the session-closed condition.
Wake(u) ==
    /\ WaitsInClosedSession(u)
    /\ status' = [status EXCEPT ![u] = "running"]
    /\ \E f \in {Top(stack[u])} :
           stack' = [stack EXCEPT ![u] = SetTop(@,
                         IF status[u] = "blocked"
                         THEN RaiseIn(f, SessionClosedException)
                         ELSE DriverFailure(f, SessionClosedException))]
    /\ UNCHANGED <<regVars, sessVars, last, taskOp, replies, consumed, callMode,
                   result, trace>>
    /\ UNCHANGED innerVars

NextSession ==
    \/ \E u \in Units : CallAdapter(u)
    \/ \E u \in Units : Await(u)
    \/ \E u \in Units : Step(u)
    \/ \E s \in Sessions : Deliver(s)
    \/ \E u \in Units : Receive(u)
    \/ \E s \in Sessions : CloseSession(s)
    \/ \E u \in Units : Wake(u)

SpecSession == InitSession /\ [][NextSession]_vars

\* The closing of a session with its units calling the primitive, no event
\* arriving. A released unit is scheduled again and a running unit keeps
\* running: threads are scheduled by the operating system, coroutines by the
\* session's scheduler.
NextClose ==
    \/ \E u \in Units : CallAdapter(u)
    \/ \E u \in Units : Await(u)
    \/ \E u \in Units : Step(u)
    \/ \E s \in Sessions : CloseSession(s)
    \/ \E u \in Units : Wake(u)

SpecClose ==
    /\ InitSession
    /\ [][NextClose]_vars
    /\ \A u \in Units : WF_vars(Wake(u)) /\ WF_vars(Step(u))

\* ------------------------------------------------------ deferred cleanup
\* defer_call(func) called from unit u, lines 302-303: the callable joins the
\* cleanup list of the current session and is returned. The callable is the
\* next one of its session (f1, f2, ...); calling it raises or does not.
DeferCall(u, raises) ==
    /\ \E r \in {GetCurrentSession(active, serverStarts, ambient, u)} :
       \E base \in {[NoCall EXCEPT !.op = "defer_call", !.unit = u,
                         !.before = active, !.startsBefore = serverStarts,
                         !.kind = r.impl, !.cond = r.cond,
                         !.session = r.session, !.calls = r.calls]} :
         /\ active' = r.registry
         /\ serverStarts' = r.starts
         /\ ambient' = r.ambient
         /\ IF r.cond # Ok
            THEN /\ deferred' = deferred
                 /\ last' = base
            ELSE /\ Len(deferred[r.session]) < MaxDeferred
                 /\ \E f \in {Callable(Len(deferred[r.session]) + 1, raises)} :
                      /\ deferred' = [deferred EXCEPT ![r.session] = Append(@, f)]
                      /\ last' = [base EXCEPT
                                      !.executed = <<[func |-> "defer_call",
                                                      arg |-> f]>>]
    /\ UNCHANGED sessVars
    /\ UNCHANGED driveVars
    /\ UNCHANGED <<inbox, arrived, ran, logged, created, scriptIsThreadBased>>

NextDefer ==
    \/ \E shape \in Shapes : Register(shape)
    \/ \E s \in Sessions, k \in Kinds, u \in Units : StartSession(s, k, u)
    \/ \E u \in Units, raises \in BOOLEAN : DeferCall(u, raises)
    \/ \E s \in Sessions : CloseSession(s)
    \/ CloseAmbient

SpecDefer == Init /\ [][NextDefer]_vars

\* ------------------------------------------------- concurrent callers
\* Threads calling register_session_implement_for_target and
\* get_session_implement at the same time. Neither function takes a lock, so a
\* thread switch may fall between any two of their statements; each statement
\* that reads or writes _active_session_cls is one step, and a thread's frame
\* holds its position (the line it is about to execute) and its local cls.
KindVal(k) == [tag |-> "kind", event |-> k, data |-> 0]

RaceFrame(op, line, cls) ==
    [op |-> op, mode |-> "fn", pc |-> line, val |-> KindVal(cls), cond |-> Ok]

\* A thread calls register_session_implement_for_target(target_func); lines
\* 39-42 compute cls from the function alone
RaceRegister(u, shape) ==
    /\ status[u] = "idle"
    /\ status' = [status EXCEPT ![u] = "running"]
    /\ stack' = [stack EXCEPT
                     ![u] = <<RaceFrame("register", "l44", RegisterCls(shape))>>]
    /\ UNCHANGED <<regVars, sessVars, last, taskOp, replies, consumed, callMode,
                   result, trace>>
    /\ UNCHANGED innerVars

\* A thread calls get_session_implement()
RaceResolve(u) ==
    /\ status[u] = "idle"
    /\ status' = [status EXCEPT ![u] = "running"]
    /\ stack' = [stack EXCEPT
                     ![u] = <<RaceFrame("get_session_implement", "l55", NoKind)>>]
    /\ UNCHANGED <<regVars, sessVars, last, taskOp, replies, consumed, callMode,
                   result, trace>>
    /\ UNCHANGED innerVars

\* The thread moves on to another line of its call
RaceGoto(u, line) ==
    /\ stack' = [stack EXCEPT ![u] = <<[Top(@) EXCEPT !.pc = line]>>]
    /\ UNCHANGED <<status, result>>

\* The thread's call ends, returning a kind or raising
RaceReturn(u, cond, k) ==
    /\ stack' = [stack EXCEPT ![u] = <<>>]
    /\ status' = [status EXCEPT ![u] = "done"]
    /\ result' = [result EXCEPT ![u] = [cond |-> cond, val |-> KindVal(k)]]

\* One statement of thread u's call
RaceStep(u) ==
    /\ status[u] = "running"
    /\ stack[u] # <<>>
    /\ \E f \in {Top(stack[u])} :
         CASE f.pc = "l44" ->
                /\ IF RegisterRaises(active)
                   THEN RaceReturn(u, RuntimeError, NoKind)
                   ELSE RaceGoto(u, "l47")
                /\ UNCHANGED regVars
           [] f.pc = "l47" ->
                /\ IF ~InSeq(f.val.event, active)
                   THEN RaceGoto(u, "l48")
                   ELSE RaceReturn(u, Ok, f.val.event)
                /\ UNCHANGED regVars
           [] f.pc = "l48" ->
                /\ active' = Append(active, f.val.event)
                /\ RaceReturn(u, Ok, f.val.event)
                /\ UNCHANGED <<serverStarts, ambient>>
           [] f.pc = "l55" ->
                /\ IF NeedsBootstrap(active)
                   THEN RaceGoto(u, "l56")
                   ELSE RaceGoto(u, "l60")
                /\ UNCHANGED regVars
           [] f.pc = "l56" ->
                /\ active' = Append(active, ScriptModeSession)
                /\ RaceGoto(u, "l57")
                /\ UNCHANGED <<serverStarts, ambient>>
           [] f.pc = "l57" ->
                /\ serverStarts' = serverStarts + 1
                /\ ambient' = "open"
                /\ RaceGoto(u, "l60")
                /\ UNCHANGED active
           [] f.pc = "l60" ->
                /\ \E sel \in {SelectImpl(active, u, ambient)} :
                       RaceReturn(u, sel.cond, sel.impl)
                /\ UNCHANGED regVars
    /\ UNCHANGED <<sessVars, last, taskOp, replies, consumed, callMode, trace>>
    /\ UNCHANGED innerVars

NextRace ==
    \/ \E u \in Units, shape \in Shapes : RaceRegister(u, shape)
    \/ \E u \in Units : RaceResolve(u)
    \/ \E u \in Units : RaceStep(u)

SpecRace == Init /\ [][NextRace]_vars

\* ------------------------------------------------------ decorated calls
\* The kind-specific operations and the adapter-wrapped operations, called
\* either in a process that starts with an empty registry, or in a server that
\* has both kinds registered and one open session of each (as in InitDrive).
\* No client event arrives: a task that reaches the suspension primitive stays
\* suspended.
InitFrame ==
    /\ taskOp \in AdapterOps
    /\ replies = <<>>
    /\ serverStarts = 0
    /\ ambient = "none"
    /\ sessClosed = [s \in Sessions |-> FALSE]
    /\ \/ /\ active = <<>>
          /\ sessKind = [s \in Sessions |-> NoKind]
          /\ owner = [u \in Units |-> NoSession]
       \/ /\ active \in {<<ThreadBasedSession, CoroutineBasedSession>>,
                         <<CoroutineBasedSession, ThreadBasedSession>>}
          /\ sessKind = [s \in Sessions |->
                             IF s = Home(ThreadUnit) THEN ThreadBasedSession
                             ELSE IF s = Home(CoroutineUnit)
                                  THEN CoroutineBasedSession
                                  ELSE NoKind]
          /\ owner = [u \in Units |-> Home(u)]
    /\ last = NoCall
    /\ DriveIdle
    /\ InnerIdle

NextFrame ==
    \/ \E shape \in Shapes : Register(shape)
    \/ \E func \in KindOps, u \in Units, arg \in Units : KindOp(func, u, arg)
    \/ \E u \in Units : CallAdapter(u)
    \/ \E u \in Units : Await(u)
    \/ \E u \in Units : Step(u)

SpecFrame == InitFrame /\ [][NextFrame]_vars

\* ------------------------------------------- environment configuration
\* set_env, line 372: the option names the assertion admits
Recognized ==
    {"title", "output_animation", "auto_scroll_bottom", "http_pull_interval"}

\* Keyword arguments a caller may pass: the recognized names, one that differs
\* from a recognized name only by case, and an unrelated one. env_info is
\* modelled by its set of keys.
OptionKeys == Recognized \cup {"Title", "theme"}

EnvInfos == {e \in SUBSET OptionKeys : Cardinality(e) <= MaxEnvKeys}

\* lines 372-373: all(k in (...) for k in env_info.keys())
\* Variant: any() in the place of all().
SetEnvAssertsAny(env) == env = {} \/ \E k \in env : k \in Recognized

SetEnvAsserts(env) == \A k \in env : k \in Recognized

\* io_ctrl.send_msg(cmd, spec): one message handed to the current session
SendMsg(u, cmd, spec) ==
    LET r == GetCurrentSession(active, serverStarts, ambient, u) IN
    [registry |-> r.registry, starts |-> r.starts, ambient |-> r.ambient,
     cond |-> r.cond, session |-> r.session, calls |-> r.calls,
     sent |-> IF r.cond = Ok
              THEN <<[command |-> cmd, spec |-> spec, session |-> r.session]>>
              ELSE <<>>]

\* set_env(**env_info) called from unit u
SetEnv(u, env) ==
    /\ \E base \in {[NoCall EXCEPT !.op = "set_env", !.unit = u,
                         !.before = active, !.startsBefore = serverStarts,
                         !.env = env]} :
       IF ~SetEnvAsserts(env)
       THEN /\ last' = [base EXCEPT !.cond = AssertionError]
            /\ UNCHANGED regVars
       ELSE \E m \in {SendMsg(u, "set_env", env)} :
            /\ active' = m.registry
            /\ serverStarts' = m.starts
            /\ ambient' = m.ambient
            /\ last' = [base EXCEPT !.cond = m.cond, !.session = m.session,
                            !.calls = m.calls, !.sent = m.sent]
    /\ UNCHANGED sessVars
    /\ UNCHANGED driveVars
    /\ UNCHANGED innerVars

\* The functions that send one message and nothing else: download (line 163),
\* run_js (line 184) and go_app (line 385, through run_js)
SendOps == {"download", "run_js", "go_app"}

\* line 163 and line 184: the command of the message
Command(func) == IF func = "download" THEN "download" ELSE "run_script"

\* The message's spec, by its keys
SpecKeys(func) == IF func = "download" THEN {"name", "content"} ELSE {"code", "args"}

\* download(name, content), run_js(code_, **args) or go_app(name, new_window)
\* called from unit u
SendCommand(func, u) ==
    /\ func \in SendOps
    /\ \E m \in {SendMsg(u, Command(func), SpecKeys(func))} :
         /\ active' = m.registry
         /\ serverStarts' = m.starts
         /\ ambient' = m.ambient
         /\ last' = [NoCall EXCEPT !.op = func, !.unit = u, !.before = active,
                         !.startsBefore = serverStarts, !.cond = m.cond,
                         !.session = m.session, !.calls = m.calls,
                         !.sent = m.sent]
    /\ UNCHANGED sessVars
    /\ UNCHANGED driveVars
    /\ UNCHANGED innerVars

NextEnv ==
    \/ \E shape \in Shapes : Register(shape)
    \/ \E s \in Sessions, k \in Kinds, u \in Units : StartSession(s, k, u)
    \/ \E s \in Sessions : CloseSession(s)
    \/ CloseAmbient
    \/ \E u \in Units, env \in EnvInfos : SetEnv(u, env)
    \/ \E func \in SendOps, u \in Units : SendCommand(func, u)

SpecEnv == Init /\ [][NextEnv]_vars

\* ---------------------------------------------------------------- claims
\* The operations that resolve the current kind: get_session_implement itself
\* and its callers (lines 80, 84, 93, 270, 302, 354, 442). set_env is not one
\* of them: a call that fails the assertion of line 373 resolves nothing, and
\* one that passes resolves only inside send_msg, as download, run_js and
\* go_app do.
ResolvingOps ==
    {"get_session_implement", "get_current_session", "get_current_task_id",
     "await run_asyncio_coroutine", "defer_call"}
        \cup SessionReaders \cup KindOps

\* Whether kind k recognizes unit u in the current state
Recognizes(k, u) == ClsGetCurrentSession(k, u, ambient).cond = Ok

\* C1: once the script-mode kind is in the registry, a call of register fails
\* with a fatal error for every shape of task function, returns no kind and
\* leaves the registry exactly as it was before the call.
C1_RegisterFailsInScriptMode ==
    (last.op = "register" /\ InSeq(ScriptModeSession, last.before))
        => /\ last.cond = RuntimeError
           /\ last.kind = NoKind
           /\ active = last.before

C1_Witness ==
    /\ last.op = "register"
    /\ last.shape = "generator"
    /\ InSeq(ScriptModeSession, last.before)
    /\ last.cond = RuntimeError

\* C2: a resolution made with an empty registry registers the script-mode kind
\* and starts the ambient server; any resolution made with a non-empty registry
\* starts nothing and leaves the registry alone, so that the server is started
\* exactly once over the whole run.
C2_BootstrapExactlyOnce ==
    /\ serverStarts <= 1
    /\ (serverStarts = 1) <=> (active = <<ScriptModeSession>>)
    /\ (last.op \in ResolvingOps /\ last.before = <<>>)
           => /\ active = <<ScriptModeSession>>
              /\ last.startsBefore = 0
              /\ serverStarts = 1
    /\ (last.op \in ResolvingOps /\ last.before # <<>>)
           => /\ active = last.before
              /\ serverStarts = last.startsBefore

C2_Witness ==
    /\ last.op = "get_session_implement"
    /\ last.before = <<ScriptModeSession>>
    /\ last.kind = ScriptModeSession
    /\ serverStarts = 1

\* C3: with exactly one kind registered, get_current_session asks that kind
\* alone, exactly once and with no probe, and returns what that kind reports
\* for the calling unit.
C3_SingleKindDirect ==
    (last.op = "get_current_session" /\ Len(last.before) = 1)
        => LET k == last.before[1]
               r == ClsGetCurrentSession(k, last.unit, ambient)
           IN  /\ last.calls = <<k>>
               /\ last.cond = r.cond
               /\ last.session = r.session
               /\ last.cond = Ok => last.kind = k

C3_Witness ==
    /\ last.op = "get_current_session"
    /\ last.before = <<ThreadBasedSession>>
    /\ last.cond = Ok
    /\ last.session \in Sessions
    /\ last.session = owner[last.unit]

\* C4: with several kinds registered, the kinds are probed in registration
\* order up to the first one that recognizes the caller; that kind is selected,
\* and the session returned is one of that kind.
C4_FirstRecognizingKind ==
    (last.op = "get_current_session" /\ Len(last.before) > 1)
        => \A i \in 1..Len(last.before) :
              (/\ Recognizes(last.before[i], last.unit)
               /\ \A j \in 1..(i - 1) : ~Recognizes(last.before[j], last.unit))
                  => /\ last.kind = last.before[i]
                     /\ last.cond = Ok
                     /\ last.calls = Append(SubSeq(last.before, 1, i), last.before[i])
                     /\ last.session \in Sessions
                     /\ sessKind[last.session] = last.kind

C4_Witness ==
    /\ last.op = "get_current_session"
    /\ Len(last.before) = 2
    /\ last.cond = Ok
    /\ last.kind = last.before[2]
    /\ last.calls = <<last.before[1], last.before[2], last.before[2]>>

\* C5: with at least one kind registered and no registered kind recognizing
\* the caller, get_current_session fails with session-not-found, returns no
\* session and leaves the registry as it was.
C5_NotFoundWhenUnrecognized ==
    (/\ last.op = "get_current_session"
     /\ last.before # <<>>
     /\ \A i \in 1..Len(last.before) : ~Recognizes(last.before[i], last.unit))
        => /\ IsSessionNotFound(last.cond)
           /\ last.session = NoSession
           /\ active = last.before

C5_Witness ==
    /\ last.op = "get_current_session"
    /\ Len(last.before) = 2
    /\ last.cond = SessionNotFoundException
    /\ \E s \in Sessions : sessClosed[s]
    /\ \E s \in Sessions : sessKind[s] # NoKind /\ ~sessClosed[s]

\* C6: with both the coroutine-backed and the thread-backed kind registered,
\* get_current_session called from a unit of an open session returns that very
\* session, of that session's kind.
C6_OwnSessionNoCrossContamination ==
    (/\ last.op = "get_current_session"
     /\ InSeq(CoroutineBasedSession, last.before)
     /\ InSeq(ThreadBasedSession, last.before)
     /\ owner[last.unit] # NoSession)
        => /\ last.cond = Ok
           /\ last.session = owner[last.unit]
           /\ last.kind = sessKind[owner[last.unit]]

C6_Witness ==
    /\ last.op = "get_current_session"
    /\ Len(last.before) = 2
    /\ owner[last.unit] # NoSession
    /\ sessKind[owner[last.unit]] = last.before[2]
    /\ last.session = owner[last.unit]
    /\ \E s \in Sessions : ~sessClosed[s] /\ sessKind[s] = last.before[1]
    /\ \E u \in Units : u # last.unit /\ owner[u] = owner[last.unit]

\* C7: register returns the coroutine-backed kind exactly for coroutine- and
\* generator-shaped functions and the thread-backed kind otherwise; after a
\* successful call the returned kind is in the registry, once; registering a
\* kind that is already there leaves the registry unchanged.
C7_RegisterKindAndIdempotence ==
    (last.op = "register" /\ last.cond = Ok)
        => /\ (last.kind = CoroutineBasedSession)
                  <=> (last.shape \in {"coroutine", "generator"})
           /\ (last.kind = ThreadBasedSession) <=> (last.shape = "plain")
           /\ Cardinality({i \in 1..Len(active) : active[i] = last.kind}) = 1
           /\ InSeq(last.kind, last.before) => active = last.before
           /\ ~InSeq(last.kind, last.before) => active = Append(last.before, last.kind)

C7_Witness ==
    /\ last.op = "register"
    /\ last.cond = Ok
    /\ last.shape = "generator"
    /\ last.before = <<ThreadBasedSession, CoroutineBasedSession>>
    /\ active = last.before

\* The call recorded in last went through to the wrapped function once: its
\* body ran with the caller's argument, or, for an async def, the call returned
\* a coroutine object for that argument with none of its body run.
WrappedCalledOnce ==
    IF last.op \in AsyncOps
    THEN last.executed = <<>> /\ last.cond = Ok /\ last.arg \in created[last.unit]
    ELSE last.executed = <<[func |-> last.op, arg |-> last.arg]>>

\* C8 as stated: a decorated operation called while the resolved kind differs
\* from the required kind fails with an error naming both and runs nothing;
\* when the kinds are equal the wrapped operation has been executed exactly
\* once with the caller's argument when the call returns. Stated for the
\* declaration most favourable to it, where no kind derives from another and
\* kinds that differ always fail the test of line 96.
C8_FailsWheneverKindsDiffer ==
    (~scriptIsThreadBased /\ last.op \in KindOps /\ last.kind # NoKind)
        => IF last.kind # last.require
           THEN /\ last.cond = RuntimeError
                /\ last.executed = <<>>
                /\ last.message = <<last.op, last.require, last.kind>>
           ELSE last.executed = <<[func |-> last.op, arg |-> last.arg]>>

\* C8 amended: the call fails, naming the required and the resolved kind and
\* running nothing, when the resolved kind is neither the required kind nor a
\* class derived from it (the test of line 96 is issubclass; whether the
\* script-mode kind derives from the thread-backed kind is decided outside the
\* module, and where it does register_thread goes through in script mode).
\* In every other case the wrapped function is called exactly once with the
\* caller's argument: the body of run_async and register_thread runs in the
\* call; the call of run_asyncio_coroutine runs none of its body and returns a
\* coroutine object, whose body runs once, with the caller's argument, when the
\* object is awaited.
C8_FailsUnlessSameOrDerivedElseCalledOnce ==
    /\ (last.op \in KindOps /\ last.kind # NoKind)
        => IF ~(\/ last.kind = last.require
                \/ (/\ scriptIsThreadBased
                    /\ last.kind = ScriptModeSession
                    /\ last.require = ThreadBasedSession))
           THEN /\ last.cond = RuntimeError
                /\ last.executed = <<>>
                /\ last.message = <<last.op, last.require, last.kind>>
           ELSE WrappedCalledOnce
    /\ (last.op = "await run_asyncio_coroutine")
        => /\ last.executed = <<[func |-> "run_asyncio_coroutine",
                                 arg |-> last.arg]>>
           /\ last.arg \notin created[last.unit]

C8_Witness ==
    /\ last.op = "await run_asyncio_coroutine"
    /\ last.kind = CoroutineBasedSession
    /\ Len(last.before) = 2
    /\ last.cond = Ok
    /\ last.session \in Sessions
    /\ last.executed = <<[func |-> "run_asyncio_coroutine", arg |-> last.arg]>>
    /\ created[last.unit] = {}

\* C9: for the same operation and the same answers to its suspending calls,
\* the thread-backed unit's call drives the generator itself (no awaitable, no
\* suspension, every nested call driven as a function) and the coroutine-backed
\* unit's call returns an awaitable (every nested call driven as a coroutine,
\* the thread never blocked); once both have finished they have the same
\* outcome and have performed the same sends and suspending calls.
FramesDrivenAs(u, mode) == \A i \in 1..Len(stack[u]) : stack[u][i].mode = mode

C9_DriversAgree ==
    /\ status[ThreadUnit] # "idle" => callMode[ThreadUnit] = "fn"
    /\ status[ThreadUnit] \notin {"created", "suspended"}
    /\ FramesDrivenAs(ThreadUnit, "fn")
    /\ status[CoroutineUnit] # "idle" => callMode[CoroutineUnit] = "coro"
    /\ status[CoroutineUnit] # "blocked"
    /\ FramesDrivenAs(CoroutineUnit, "coro")
    /\ (status[ThreadUnit] = "done" /\ status[CoroutineUnit] = "done")
           => /\ result[ThreadUnit] = result[CoroutineUnit]
              /\ trace[ThreadUnit] = trace[CoroutineUnit]

C9_Witness ==
    /\ taskOp = "eval_js"
    /\ status[ThreadUnit] = "done"
    /\ status[CoroutineUnit] = "done"
    /\ result[ThreadUnit] = [cond |-> Ok, val |-> Val(2)]
    /\ result[CoroutineUnit] = [cond |-> Ok, val |-> Val(2)]
    /\ trace[CoroutineUnit] = <<"send run_script", "wait">>

\* C10: under either kind, hold called from a unit of an open session finishes
\* only by returning None, only after its session has closed, the closing
\* being the answer to its last suspending call and every answer before it an
\* event that was consumed; once the session has closed hold neither waits
\* again nor lets an exception out.
C10_HoldReturnsOnlyOnClose ==
    taskOp = "hold" =>
        \A u \in {ThreadUnit, CoroutineUnit} :
            /\ status[u] = "done"
                   => /\ result[u] = [cond |-> Ok, val |-> None]
                      /\ sessClosed[Home(u)]
                      /\ consumed[u] >= 1
                      /\ replies[consumed[u]] = Closed
            /\ ~sessClosed[Home(u)]
                   => \A i \in 1..consumed[u] : replies[i].tag = "event"
            /\ sessClosed[Home(u)]
                   => /\ status[u] \in {"running", "done"}
                      /\ stack[u] # <<>> => stack[u][1].pc # "raise"

C10_Witness ==
    /\ taskOp = "hold"
    /\ \A u \in {ThreadUnit, CoroutineUnit} :
           /\ status[u] = "done"
           /\ consumed[u] = MaxReplies
           /\ result[u] = [cond |-> Ok, val |-> None]

\* C11 as stated: hold called from a unit for which resolution finds no session
\* returns normally (None), and no session-not-found error reaches the caller.
C11_HoldNeverRaisesNotFound ==
    \A u \in Units :
        (taskOp = "hold" /\ Home(u) = NoSession /\ status[u] = "done")
            => result[u] = [cond |-> Ok, val |-> None]

\* C12: eval_js called from a unit of an open session sends one run_script
\* message, makes its one suspending call only after that send, and consumes at
\* most one event; when the event consumed is a js_yield event, eval_js returns
\* that event's data unchanged (None when the data is absent) and consumes
\* nothing more, whatever else is pending.
C12_EvalJsRoundTrip ==
    taskOp = "eval_js" =>
        \A u \in {ThreadUnit, CoroutineUnit} :
            /\ trace[u] \in {<<>>, <<"send run_script">>,
                             <<"send run_script", "wait">>}
            /\ consumed[u] <= 1
            /\ consumed[u] = 1 => trace[u] = <<"send run_script", "wait">>
            /\ (/\ status[u] = "done"
                /\ consumed[u] = 1
                /\ replies[1].tag = "event"
                /\ replies[1].event = "js_yield")
                   => result[u] = [cond |-> Ok, val |-> Val(replies[1].data)]

C12_Witness ==
    /\ taskOp = "eval_js"
    /\ Len(replies) = MaxReplies
    /\ replies[1] = Event("js_yield", 0)
    /\ \A u \in {ThreadUnit, CoroutineUnit} :
           /\ status[u] = "done"
           /\ consumed[u] = 1
           /\ result[u] = [cond |-> Ok, val |-> None]
           /\ trace[u] = <<"send run_script", "wait">>

\* C13: when the event eval_js consumes is not a js_yield event, eval_js fails
\* with AssertionError: it returns no value, in particular not the event's
\* data, and it makes no further suspending call and consumes no further event.
C13_EvalJsRejectsOtherEvent ==
    taskOp = "eval_js" =>
        \A u \in {ThreadUnit, CoroutineUnit} :
            (/\ consumed[u] >= 1
             /\ replies[1].tag = "event"
             /\ replies[1].event # "js_yield")
                => /\ consumed[u] = 1
                   /\ status[u] \in {"running", "done"}
                   /\ trace[u] = <<"send run_script", "wait">>
                   /\ status[u] = "done"
                          => result[u] = [cond |-> AssertionError, val |-> None]

C13_Witness ==
    /\ taskOp = "eval_js"
    /\ Len(replies) = MaxReplies
    /\ replies[1] = Event("callback", 1)
    /\ replies[2] = Event("js_yield", 2)
    /\ \A u \in {ThreadUnit, CoroutineUnit} :
           /\ status[u] = "done"
           /\ consumed[u] = 1
           /\ result[u].cond = AssertionError

\* C14: a set_env call with any key outside the four recognized names, alone
\* or mixed with recognized ones, fails its assertion before anything is sent:
\* no message leaves and the registry and the ambient server are as before. A
\* call with recognized keys only, made where a current session is found,
\* sends exactly one set_env message to that session, carrying exactly the
\* options of the call; where no session is found it sends nothing and fails
\* with session-not-found.
C14_SetEnvRejectsUnknownKeys ==
    last.op = "set_env" =>
        IF \E k \in last.env : k \notin Recognized
        THEN /\ last.cond = AssertionError
             /\ last.sent = <<>>
             /\ active = last.before
             /\ serverStarts = last.startsBefore
        ELSE IF last.cond = Ok
        THEN last.sent = <<[command |-> "set_env", spec |-> last.env,
                            session |-> last.session]>>
        ELSE /\ IsSessionNotFound(last.cond)
             /\ last.sent = <<>>

C14_Witness ==
    /\ last.op = "set_env"
    /\ last.env = {"title", "theme"}
    /\ last.cond = AssertionError
    /\ last.sent = <<>>
    /\ owner[last.unit] \in Sessions

\* The event a unit has taken from the queue: held by its generator until the
\* call returns it
EventOf(u) == IF status[u] = "done" THEN result[u].val ELSE Top(stack[u]).val

Holders(i) == {u \in Units : consumed[u] >= 1 /\ EventOf(u).data = i}

PendingAt(i) ==
    {j \in 1..Len(inbox[SharedSession]) : inbox[SharedSession][j].data = i}

\* C15: with every unit of one session calling next_client_event once, under
\* every interleaving of deliveries and calls, each delivered event is either
\* still pending or held by exactly one unit (never by two, never lost), no unit
\* takes more than one event, and a unit whose call has returned normally
\* returns the one event it took; so when as many events were delivered as
\* there are units and all calls have returned, the units hold all the events,
\* one each.
C15_EachEventToExactlyOneUnit ==
    /\ \A u \in Units :
           /\ consumed[u] <= 1
           /\ consumed[u] = 1
                  => /\ EventOf(u).tag = "event"
                     /\ EventOf(u).data \in 1..arrived
           /\ (status[u] = "done" /\ result[u].cond = Ok) => consumed[u] = 1
    /\ \A i \in 1..arrived :
           Cardinality(Holders(i)) + Cardinality(PendingAt(i)) = 1
    /\ (/\ arrived = Cardinality(Units)
        /\ \A u \in Units : status[u] = "done" /\ result[u].cond = Ok)
           => /\ inbox[SharedSession] = <<>>
              /\ {result[u].val.data : u \in Units} = 1..arrived

C15_Witness ==
    /\ arrived = MaxUnits
    /\ inbox[SharedSession] = <<>>
    /\ \A u \in Units : status[u] = "done" /\ result[u].cond = Ok
    /\ result[1].val = Event("callback", MaxUnits)
    /\ result[MaxUnits].val = Event("callback", 1)

\* C16: a unit suspended in next_client_event when its session closes is
\* eventually released: its call ends with the session-closed condition. No
\* unit stays suspended forever after the closure.
C16_ClosedSessionWakesAll ==
    \A u \in Units :
        WaitsInClosedSession(u)
            ~> (status[u] = "done" /\ result[u].cond = SessionClosedException)

C16_Witness ==
    /\ sessClosed[SharedSession]
    /\ \A u \in Units :
           /\ status[u] = "done"
           /\ consumed[u] = 0
           /\ result[u].cond = SessionClosedException

IsClosed(s) == IF s = Ambient THEN ambient = "closed" ELSE sessClosed[s]

Raises(f) == f.raises

\* C17: the callables registered with defer_call in a session are called when
\* the session closes, each exactly once and in the order of registration,
\* whether the client disconnected or the task finished; one that raises has
\* its error logged, the ones after it are still called, and the closing unit
\* sees no error; before the closing none of them is called.
C17_DeferredRunInOrderOnClose ==
    /\ \A s \in AllSessions :
           /\ \A i \in 1..Len(deferred[s]) : deferred[s][i].id = i
           /\ ~IsClosed(s) => (ran[s] = <<>> /\ logged[s] = <<>>)
           /\ IsClosed(s) => /\ ran[s] = deferred[s]
                             /\ logged[s] = SelectSeq(deferred[s], Raises)
    /\ last.op = "close_session"
           => /\ last.cond = Ok
              /\ last.cause \in CloseCauses
              /\ ran[last.session] = deferred[last.session]

C17_Witness ==
    /\ last.op = "close_session"
    /\ last.cause = "task"
    /\ last.session = 1
    /\ deferred[1] = <<Callable(1, FALSE), Callable(2, TRUE), Callable(3, FALSE)>>
    /\ ran[1] = deferred[1]
    /\ logged[1] = <<Callable(2, TRUE)>>

\* C18 as stated: with several threads making their first resolution call at
\* the same time, and register calls among them, the script-mode kind is in
\* the registry at most once, the ambient server is started at most once, and
\* the script-mode kind is never registered next to another kind.
C18_ScriptModeOnceAndAlone ==
    /\ Cardinality({i \in 1..Len(active) : active[i] = ScriptModeSession}) <= 1
    /\ serverStarts <= 1
    /\ InSeq(ScriptModeSession, active) => active = <<ScriptModeSession>>

Pos(a, k) == CHOOSE i \in 1..Len(a) : a[i] = k

\* The kinds of a stay in b, in the same relative order
KeepsKindsInOrder(a, b) ==
    /\ \A i \in 1..Len(a) : InSeq(a[i], b)
    /\ \A i, j \in 1..Len(a) : i < j => Pos(b, a[i]) < Pos(b, a[j])

\* C19: with register and resolve calls made one at a time, the registry never
\* holds a kind twice, never holds more than two kinds, and holds the
\* script-mode kind only as its sole entry; no step removes a registered kind
\* or changes the relative order of the registered kinds.
C19_RegistryShape ==
    /\ [](/\ \A i, j \in 1..Len(active) : active[i] = active[j] => i = j
          /\ Len(active) <= 2
          /\ InSeq(ScriptModeSession, active) => active = <<ScriptModeSession>>)
    /\ [][KeepsKindsInOrder(active, active')]_vars

C19_Witness ==
    /\ active = <<CoroutineBasedSession, ThreadBasedSession>>
    /\ last.op = "register"
    /\ last.shape = "coroutine"
    /\ last.before = active
    /\ \E s \in Sessions : sessClosed[s]

\* A step that is a kind-specific call failing its capability check: the call
\* record is replaced by that of a decorated operation that raised RuntimeError
KindOpFailsCheck ==
    /\ last' # last
    /\ last'.op \in KindOps
    /\ last'.cond = RuntimeError

\* A step that is unit u's adapter-wrapped call failing in kind resolution
\* (the only step that takes a unit from idle to done without driving it)
AdapterFailsResolution(u) == status[u] = "idle" /\ status'[u] = "done"

\* What a failed adapter call leaves: no generator was driven and nothing was
\* sent or awaited, by any unit
NothingDriven(u) ==
    /\ stack' = stack
    /\ stack'[u] = <<>>
    /\ trace' = trace
    /\ consumed' = consumed

\* C20 as stated: a kind-specific call that fails the capability check, and an
\* adapter-wrapped call whose kind resolution fails, leave the registry as it
\* was, start no ambient server and execute no step of the wrapped operation
\* or generator body.
C20_FailedCallChangesNothing ==
    [][/\ KindOpFailsCheck
              => /\ active' = active
                 /\ serverStarts' = serverStarts
                 /\ ambient' = ambient
                 /\ last'.executed = <<>>
                 /\ owner' = owner
       /\ \A u \in Units :
              AdapterFailsResolution(u)
                  => /\ active' = active
                     /\ serverStarts' = serverStarts
                     /\ ambient' = ambient
                     /\ NothingDriven(u)]_vars

\* C20 amended: neither failed call executes any step of the wrapped operation
\* or generator body. A failed adapter call leaves the registry and the ambient
\* server as they were. A kind-specific call that fails the capability check
\* leaves them as they were when the registry held a kind before the call; made
\* with an empty registry, its resolution has registered the script-mode kind
\* and started the ambient server before the check failed.
C20_FailedCallBootstrapsEmptyRegistry ==
    [][/\ KindOpFailsCheck
              => /\ last'.executed = <<>>
                 /\ owner' = owner
                 /\ IF active = <<>>
                    THEN /\ active' = <<ScriptModeSession>>
                         /\ serverStarts' = serverStarts + 1
                         /\ ambient' = "open"
                         /\ last'.kind = ScriptModeSession
                    ELSE /\ active' = active
                         /\ serverStarts' = serverStarts
                         /\ ambient' = ambient
       /\ \A u \in Units :
              AdapterFailsResolution(u)
                  => /\ active # <<>>
                     /\ active' = active
                     /\ serverStarts' = serverStarts
                     /\ ambient' = ambient
                     /\ NothingDriven(u)]_vars

C20_Witness ==
    /\ last.op = "run_async"
    /\ last.unit = ThreadUnit
    /\ last.kind = ThreadBasedSession
    /\ last.cond = RuntimeError
    /\ active = last.before
    /\ \E u \in Units :
           /\ status[u] = "done"
           /\ callMode[u] = "none"
           /\ result[u].cond = SessionNotFoundException

====
